---- MODULE Spec2Model ----
(***************************************************************************)
(* A model of scripts/mni.py (calculate_mni, _load_element_divisors) and   *)
(* scripts/pairwise_field_season_comparison.py                             *)
(* (compare_consecutive_seasons).                                          *)
(*                                                                         *)
(* A DataFrame is a record [columns, rows]: the set of its column names    *)
(* and the sequence of its rows, each row a function from the column names *)
(* to cells.  A key cell is NA (pandas' missing value) or Val(v); a count  *)
(* cell of a pivoted table is a plain integer.  One call of a function is  *)
(* one behaviour: Init draws the arguments (and, for calculate_mni, the    *)
(* spreadsheet it reads and the order in which the interpreter iterates a  *)
(* set), the actions are the function's statements in order.               *)
(***************************************************************************)
EXTENDS Integers, Sequences, FiniteSets, TLC

\* ------------------------------------------------------------------ bounds

MaxTaxonRows == 2
MaxPivotRows == 3
MaxRawRows == 2
MaxDivisors == 2
MaxSeasonRows == 3

\* ------------------------------------------------------------------- cells

NA == <<>>
Val(v) == <<v>>
isna(cell) == cell = NA

\* Column names, as the source spells them.
TransectUID == "TransectUID"
TaxonLabel == "Taxon Label"
PreAge == "Pre: Age"
PreSex == "Pre: Sex"
Element == "What element is this?"
Side == "Side"
PostTaxonGuess == "Post: Taxon Guess?"
PreTaxon == "Pre: Taxon"
ElementMniCol == "element_mni"

required == {TransectUID, TaxonLabel, PreAge, PreSex, Element}

\* str.lower() on the strings the model uses.
str_lower(s) ==
    CASE s = "Bone Nonidentifiable" -> "bone nonidentifiable"
      [] s = "Femur" -> "femur"
      [] s = " Femur " -> " femur "
      [] s = "Element" -> "element"
      [] s = "Count" -> "count"
      [] OTHER -> s

\* str.strip() on the strings the model uses.
str_strip(s) ==
    CASE s = " Femur " -> "Femur"
      [] s = " femur " -> "femur"
      [] s = " Element" -> "Element"
      [] s = " " -> ""
      [] OTHER -> s

\* The regular expression ^\s*$ of the element-name replacement.
is_blank(s) == s \in {"", " "}

\* pd.to_numeric(..., errors="coerce").astype("Int64") on a text cell.
to_numeric(cell) ==
    IF isna(cell) THEN NA
    ELSE CASE cell[1] = "1" -> Val(1)
           [] cell[1] = "01" -> Val(1)
           [] cell[1] = "2" -> Val(2)
           [] OTHER -> NA

\* ------------------------------------------------------------ frame algebra

Frame(cols, rows) == [columns |-> cols, rows |-> rows]
EmptyFrame == Frame({}, <<>>)

Project(r, cols) == [c \in cols |-> r[c]]

SeqsUpTo(S, lo, hi) == UNION {[1..n -> S] : n \in lo..hi}

\* The frame with its rows replaced, one for one.
with_rows(frame, rows) == [frame EXCEPT !.rows = rows]

\* DataFrame.dropna(subset=...)
dropna(frame, subset) ==
    [frame EXCEPT !.rows = SelectSeq(@, LAMBDA r: \A c \in subset: ~isna(r[c]))]

\* Series.fillna(other Series), written back to the target column.
fillna(frame, target, source) ==
    with_rows(frame, [j \in 1..Len(frame.rows) |->
        LET r == frame.rows[j]
        IN IF isna(r[target]) THEN [r EXCEPT ![target] = r[source]] ELSE r])

\* df[c] = pd.NA
with_na_column(frame, c) ==
    Frame(frame.columns \cup {c},
          [j \in 1..Len(frame.rows) |->
              [d \in frame.columns \cup {c} |->
                  IF d = c THEN NA ELSE frame.rows[j][d]]])

\* DataFrame.drop(columns=...)
drop_columns(frame, cols) ==
    Frame(frame.columns \ cols,
          [j \in 1..Len(frame.rows) |-> Project(frame.rows[j], frame.columns \ cols)])

Range(s) == {s[j] : j \in DOMAIN s}

RECURSIVE distinct(_)
\* The distinct entries of a sequence, in the order of their first occurrence.
distinct(s) ==
    IF s = <<>> THEN <<>>
    ELSE <<Head(s)>> \o SelectSeq(distinct(Tail(s)), LAMBDA x: x # Head(s))

Max(S) == CHOOSE x \in S : \A y \in S : y <= x
Min(S) == CHOOSE x \in S : \A y \in S : x <= y

RECURSIVE sorted(_)
\* sorted(...) of a set of integers, ascending.
sorted(S) == IF S = {} THEN <<>> ELSE <<Min(S)>> \o sorted(S \ {Min(S)})

\* ------------------------------------------------------------------ errors

NoError == [type |-> "none", message |-> "", columns |-> {}, note |-> ""]

\* ValueError(f"Missing columns: {sorted(missing)}"); the message lists the
\* names sorted, the model keeps them as a set.
MissingColumns(cols, note) ==
    [type |-> "ValueError", message |-> "Missing columns", columns |-> cols,
     note |-> note]

NoAlternative == "and no alternative taxon columns found"

\* ------------------------------------------- calculate_mni, step by step

\* The check of every required column on entry, in place of TransectUID alone.
all_missing(frame) == required \ frame.columns

\* The first check of calculate_mni: the columns it reports missing on entry.
entry_missing(frame) ==
    IF TransectUID \notin frame.columns THEN {TransectUID} ELSE {}

\* df["TransectUID"] = pd.to_numeric(df["TransectUID"], errors="coerce")
coerce_transect(frame) ==
    with_rows(frame, [j \in 1..Len(frame.rows) |->
        [frame.rows[j] EXCEPT ![TransectUID] = to_numeric(@)]])

needs_taxon(frame) ==
    \/ TaxonLabel \notin frame.columns
    \/ \E j \in 1..Len(frame.rows) : isna(frame.rows[j][TaxonLabel])

\* The alternates in the other order.
alt_cols_swapped(frame) ==
    SelectSeq(<<PreTaxon, PostTaxonGuess>>, LAMBDA c: c \in frame.columns)

alt_cols(frame) ==
    SelectSeq(<<PostTaxonGuess, PreTaxon>>, LAMBDA c: c \in frame.columns)

RECURSIVE fill_taxon(_, _)
\* for c in alt_cols: df["Taxon Label"] = df["Taxon Label"].fillna(df[c])
fill_taxon(frame, cols) ==
    IF cols = <<>> THEN frame
    ELSE fill_taxon(fillna(frame, TaxonLabel, Head(cols)), Tail(cols))

\* The body of "if alt_cols:".
reconstruct_taxon(frame) ==
    LET base == IF TaxonLabel \notin frame.columns
                THEN with_na_column(frame, TaxonLabel) ELSE frame
    IN drop_columns(fill_taxon(base, alt_cols(frame)), Range(alt_cols(frame)))

\* The keys DataFrame.pivot_table groups by: the five index columns and the
\* "columns" key.  Its groupby runs with dropna=True, so a row with a missing
\* value in any of them, the element name included, is in no group.
pivot_keys == required \cup {Side}

\* df.pivot_table(index=[five keys], columns="Side", aggfunc="size",
\* fill_value=0).rename_axis(columns=None).reset_index(): one row per five-key
\* combination, one column per side value, holding the number of rows.
\* pandas orders the rows by key; the model keeps the order of first
\* occurrence (every later step groups or works row by row).
pivot_table(frame) ==
    LET grouped == dropna(frame, pivot_keys).rows
        keys == distinct([j \in 1..Len(grouped) |-> Project(grouped[j], required)])
        sides == {grouped[j][Side][1] : j \in 1..Len(grouped)}
        size(key, s) ==
            Cardinality({j \in 1..Len(grouped) :
                /\ Project(grouped[j], required) = key
                /\ grouped[j][Side][1] = s})
    IN Frame(required \cup sides,
             [n \in 1..Len(keys) |->
                 [c \in required \cup sides |->
                     IF c \in required THEN keys[n][c] ELSE size(keys[n], c)]])

\* The rows the raw branch drops before pivoting.
raw_dropna_subset == (required \cup {Side}) \ {Element}

\* .replace(r"^\s*$", pd.NA, regex=True).fillna("teeth") on the element column.
normalise_element(frame) ==
    with_rows(frame, [j \in 1..Len(frame.rows) |->
        LET r == frame.rows[j]
        IN IF isna(r[Element]) \/ is_blank(r[Element][1])
           THEN [r EXCEPT ![Element] = Val("teeth")] ELSE r])

\* side_cols: every column that is not one of the five keys.
side_columns(frame) == frame.columns \ required

\* pivot["What element is this?"].str.lower() == name
element_is(r, name) == ~isna(r[Element]) /\ str_lower(r[Element][1]) = name

\* pivot.loc[mask, side_cols] = 1
mask_nonidentifiable(frame, cols) ==
    with_rows(frame, [j \in 1..Len(frame.rows) |->
        LET r == frame.rows[j]
        IN IF element_is(r, "bone nonidentifiable")
           THEN [c \in DOMAIN r |-> IF c \in cols THEN 1 ELSE r[c]] ELSE r])

\* np.ceil(a / b) for integers a and b, b # 0.
ceil_div(a, b) == IF b > 0 THEN -((-a) \div b) ELSE -(a \div (-b))

\* --------------------------------------------------- _load_element_divisors

\* A spreadsheet cell, by what the code does with it: str(cell) and
\* pd.to_numeric(cell, errors="coerce"), the latter NA (NaN) or the fraction
\* <<numerator, denominator>> with a positive denominator.
Cell(text, num) == [text |-> text, num |-> num]

required_cols == {"element", "count"}

\* df_div.columns.str.strip().str.lower()
normalise_header(h) == str_lower(str_strip(h))

\* The orders list(required_cols) can come out in: the iteration order of a
\* set of two strings follows their hashes, which CPython salts per process.
list_orders == {<<"element", "count">>, <<"count", "element">>}

\* _load_element_divisors(path) on a file [exists, headers, rows], with
\* `order` what list(required_cols) gives in this process: the error it
\* raises (NoError when none) and the tuples itertuples(index=False) yields.
load_element_divisors(file, order) ==
    LET columns == {normalise_header(h) : h \in file.headers}
        renamed(r) == [c \in columns |->
                          r[CHOOSE h \in file.headers : normalise_header(h) = c]]
    IN IF ~file.exists
       THEN [error |-> [type |-> "FileNotFoundError",
                        message |-> "Element counts file not found",
                        columns |-> {}, note |-> ""],
             tuples |-> <<>>]
       ELSE IF ~(required_cols \subseteq columns)
       THEN [error |-> [type |-> "ValueError",
                        message |-> "Element counts file missing required columns",
                        columns |-> required_cols \ columns, note |-> ""],
             tuples |-> <<>>]
       ELSE [error |-> NoError,
             tuples |-> [j \in 1..Len(file.rows) |->
                            <<renamed(file.rows[j])[order[1]],
                              renamed(file.rows[j])[order[2]]>>]]

\* ------------------------------------------------------- count correction

\* One pass of "for element, divisor in element_divisors.itertuples(...)":
\* the tuple's first entry is taken for the name, its second for the divisor.
apply_divisor(frame, cols, tuple) ==
    LET element == str_lower(str_strip(tuple[1].text))
        divisor == tuple[2].num
    IN IF isna(divisor) \/ divisor[1] = 0 THEN frame
       ELSE with_rows(frame, [j \in 1..Len(frame.rows) |->
                LET r == frame.rows[j]
                IN IF element_is(r, element)
                   THEN [c \in DOMAIN r |->
                            IF c \in cols
                            THEN ceil_div(r[c] * divisor[2], divisor[1])
                            ELSE r[c]]
                   ELSE r])

RECURSIVE apply_divisors(_, _, _)
\* The whole loop over the tuples.
apply_divisors(frame, cols, tuples) ==
    IF tuples = <<>> THEN frame
    ELSE apply_divisors(apply_divisor(frame, cols, Head(tuples)), cols, Tail(tuples))

\* ------------------------------------------------------------ aggregation

\* Series/DataFrame max with skipna=True: NaN when nothing is left.
max_skipna(cells) ==
    LET vals == {c[1] : c \in {d \in cells : ~isna(d)}}
    IN IF vals = {} THEN NA ELSE Val(Max(vals))

\* pivot[side_cols].max(axis=1) of one row.
row_max(r, cols) == max_skipna({Val(r[c]) : c \in cols})

\* pivot["element_mni"] = pivot[side_cols].max(axis=1)
with_element_mni(frame, cols) ==
    Frame(frame.columns \cup {ElementMniCol},
          [j \in 1..Len(frame.rows) |->
              [c \in frame.columns \cup {ElementMniCol} |->
                  IF c = ElementMniCol THEN row_max(frame.rows[j], cols)
                  ELSE frame.rows[j][c]]])

group_keys == {TransectUID, TaxonLabel, PreAge, PreSex}

RECURSIVE sum_skipna(_)
\* Series.sum() with skipna=True over a sequence of cells: 0 when nothing is left.
sum_skipna(cells) ==
    IF cells = <<>> THEN 0
    ELSE (IF isna(Head(cells)) THEN 0 ELSE Head(cells)[1]) + sum_skipna(Tail(cells))

\* The groups' sums in place of their maxima.
group_sum(frame) ==
    LET rows == dropna(frame, group_keys).rows
        keys == distinct([j \in 1..Len(rows) |-> Project(rows[j], group_keys)])
        of(key) == SelectSeq(rows, LAMBDA r: Project(r, group_keys) = key)
    IN Frame(group_keys \cup {ElementMniCol},
             [n \in 1..Len(keys) |->
                 [c \in group_keys \cup {ElementMniCol} |->
                     IF c = ElementMniCol
                     THEN Val(sum_skipna([j \in 1..Len(of(keys[n])) |->
                                             of(keys[n])[j][ElementMniCol]]))
                     ELSE keys[n][c]]])

\* pivot.groupby([transect, taxon, age, sex])["element_mni"].max().reset_index()
\* (groupby leaves out a key with a missing value; rows in the order of the
\* keys' first occurrence).
group_max(frame) ==
    LET rows == dropna(frame, group_keys).rows
        keys == distinct([j \in 1..Len(rows) |-> Project(rows[j], group_keys)])
        cells(key) == {rows[j][ElementMniCol] :
                          j \in {n \in 1..Len(rows) : Project(rows[n], group_keys) = key}}
    IN Frame(group_keys \cup {ElementMniCol},
             [n \in 1..Len(keys) |->
                 [c \in group_keys \cup {ElementMniCol} |->
                     IF c = ElementMniCol THEN max_skipna(cells(keys[n]))
                     ELSE keys[n][c]]])

\* group_mni.groupby("TransectUID")["element_mni"].sum().reset_index(), renamed
\* to MNI: one row per transect, ascending.
transect_sum(frame) ==
    LET rows == dropna(frame, {TransectUID}).rows
        ids == sorted({rows[j][TransectUID][1] : j \in 1..Len(rows)})
        of(t) == SelectSeq(rows, LAMBDA r: r[TransectUID] = Val(t))
    IN Frame({TransectUID, "MNI"},
             [n \in 1..Len(ids) |->
                 [TransectUID |-> Val(ids[n]),
                  MNI |-> sum_skipna([j \in 1..Len(of(ids[n])) |->
                                         of(ids[n])[j][ElementMniCol]])]])

\* ------------------------------------------------ calculate_mni as a whole

Raised(e) == [error |-> e, result |-> EmptyFrame]
Returned(frame) == [error |-> NoError, result |-> frame]

\* Lines 139-172 on the pivoted table.
correct_and_aggregate(table, file, order) ==
    LET cols == side_columns(table)
        loaded == load_element_divisors(file, order)
        corrected == apply_divisors(mask_nonidentifiable(table, cols), cols,
                                    loaded.tuples)
        aggregate(t) == transect_sum(group_max(with_element_mni(t, cols)))
    IN IF cols = {} THEN Returned(aggregate(table))
       ELSE IF loaded.error # NoError THEN Raised(loaded.error)
       ELSE Returned(aggregate(corrected))

\* Lines 89-123 on the frame left by the taxon reconstruction.
shape_and_correct(frame, file, order) ==
    LET wanted == IF Side \in frame.columns THEN required \cup {Side} ELSE required
        table == IF Side \in frame.columns
                 THEN pivot_table(dropna(frame, raw_dropna_subset))
                 ELSE dropna(frame, required)
    IN IF wanted \ frame.columns # {}
       THEN Raised(MissingColumns(wanted \ frame.columns, ""))
       ELSE correct_and_aggregate(normalise_element(table), file, order)

\* calculate_mni(df), reading `file` in a process whose list(required_cols)
\* is `order`: the error raised, or the table returned.
calculate_mni(frame, file, order) ==
    IF entry_missing(frame) # {} THEN Raised(MissingColumns(entry_missing(frame), ""))
    ELSE LET coerced == coerce_transect(frame)
         IN IF ~needs_taxon(coerced) THEN shape_and_correct(coerced, file, order)
            ELSE IF alt_cols(coerced) = <<>>
            THEN Raised(MissingColumns({TaxonLabel}, NoAlternative))
            ELSE shape_and_correct(reconstruct_taxon(coerced), file, order)

\* ------------------------------------------------------------------ inputs

AllRawColumns == required \cup {Side, PostTaxonGuess, PreTaxon}
CountColumns == {"Left", "Right"}
PivotedColumns == required \cup CountColumns

RawRow(t, l, g, p, e, sd) ==
    [c \in AllRawColumns |->
        CASE c = TransectUID -> t
          [] c = TaxonLabel -> l
          [] c = PostTaxonGuess -> g
          [] c = PreTaxon -> p
          [] c = PreAge -> Val("adult")
          [] c = PreSex -> Val("F")
          [] c = Element -> e
          [] OTHER -> sd]

PivotedRow(t, l, e, left, right) ==
    [c \in PivotedColumns |->
        CASE c = TransectUID -> t
          [] c = TaxonLabel -> l
          [] c = PreAge -> Val("adult")
          [] c = PreSex -> Val("F")
          [] c = Element -> e
          [] c = "Left" -> left
          [] OTHER -> right]

Headers == {" Element", "Count"}
FileRow(name, count) == (" Element" :> Cell(name, NA)) @@ ("Count" :> count)
Number(text, n, d) == Cell(text, <<n, d>>)

File(rows) == [exists |-> TRUE, headers |-> Headers, rows |-> rows]
MissingFile == [exists |-> FALSE, headers |-> {}, rows |-> <<>>]
BadHeaderFile == [exists |-> TRUE, headers |-> {" Element"}, rows |-> <<>>]
StandardFile ==
    File(<<FileRow(" Femur ", Number("2", 2, 1)), FileRow("tibia", Number("2", 2, 1))>>)

\* Tables that vary in their columns and in the three taxon columns.
TaxonInputs ==
    LET rows == {RawRow(Val("1"), l, g, p, Val("femur"), Val("Left")) :
                    l \in {NA, Val("zebra")}, g \in {NA, Val("oryx")},
                    p \in {NA, Val("rhino")}}
        colsets == {AllRawColumns \ gone :
                       gone \in SUBSET {TransectUID, TaxonLabel, PreAge, Side,
                                        PostTaxonGuess, PreTaxon}}
        frames == {Frame(cols, [j \in DOMAIN rs |-> Project(rs[j], cols)]) :
                      cols \in colsets, rs \in SeqsUpTo(rows, 1, MaxTaxonRows)}
    IN \* A pivoted table holds key columns and count columns only: an
       \* alternate taxon column in it is one the reconstruction consumes.
       {f \in frames :
           (Side \notin f.columns /\ f.columns \cap {PostTaxonGuess, PreTaxon} # {})
               => (TransectUID \notin f.columns \/ needs_taxon(f))}

\* Pivoted tables that vary in their keys and counts.
CountInputs ==
    LET rows == {PivotedRow(t, l, Val(e[1]), e[2], e[3]) :
                    t \in {Val("1"), Val("2")}, l \in {Val("zebra"), Val("oryx")},
                    e \in {<<"scapula", 3, 0>>, <<"humerus", 2, 5>>, <<"tibia", 0, 4>>}}
    IN {Frame(PivotedColumns, rs) : rs \in SeqsUpTo(rows, 1, MaxPivotRows)}

\* One pivoted row, for the spreadsheets of DivisorFiles.
DivisorInputs ==
    {Frame(PivotedColumns, <<PivotedRow(Val("1"), Val("zebra"), Val(e), c[1], c[2])>>) :
        e \in {"Femur", "Bone Nonidentifiable", "tibia"}, c \in {<<4, 0>>, <<5, 1>>}}

DivisorFiles ==
    LET entries == {FileRow(name, count) :
                       name \in {" Femur ", "bone nonidentifiable"},
                       count \in {Number("2", 2, 1), Number("0.5", 1, 2),
                                  Number("0", 0, 1), Number("-1", -1, 1),
                                  Cell("n/a", NA)}}
    IN {File(rows) : rows \in SeqsUpTo(entries, 0, MaxDivisors)}
          \cup {MissingFile, BadHeaderFile}

\* Raw tables that vary in transect id, element name and side.
RawInputs ==
    LET rows == {RawRow(t, Val("zebra"), NA, NA, e, sd) :
                    t \in {Val("1"), Val("01"), NA},
                    e \in {Val("femur"), Val(" "), NA},
                    sd \in {Val("Left"), Val("Right"), NA}}
        cols == required \cup {Side}
    IN {Frame(cols, [j \in DOMAIN rs |-> Project(rs[j], cols)]) :
           rs \in SeqsUpTo(rows, 1, MaxRawRows)}

SeasonRow(year, value) == [Year |-> year, Value |-> value]

\* (season, value) tables for compare_consecutive_seasons.
SeasonInputs ==
    SeqsUpTo({SeasonRow(y, v) : y \in {NA, Val(2019), Val(2020), Val(2021)},
                                v \in {NA, Val(1), Val(3)}},
             0, MaxSeasonRows)

\* ------------------------------------------------------------------- state

VARIABLES
    call,              \* which function this behaviour runs: "mni" or "season"
    pc,                \* the statement reached
    input,             \* calculate_mni's argument, as passed
    divisor_file,      \* the spreadsheet at ELEMENT_COUNTS_PATH
    hash_order,        \* what list(required_cols) gives in this process
    df,                \* calculate_mni's local df
    pivot,             \* calculate_mni's local pivot
    side_cols,         \* calculate_mni's local side_cols
    uncorrected,       \* pivot as it was when side_cols was computed
    element_divisors,  \* the tuples of the loaded divisor table
    k,                 \* the next tuple of the loop over element_divisors
    group_mni,         \* calculate_mni's local group_mni
    transect_mni,      \* calculate_mni's local transect_mni, returned
    error,             \* the exception raised, NoError when none
    season_df,         \* compare_consecutive_seasons' argument
    field_seasons,     \* its local field_seasons
    i,                 \* its loop index
    results,           \* its local results
    skipped,           \* the pairs its "Skipping comparison" lines name
    comparison_df      \* the table it returns

mni_vars == <<input, divisor_file, hash_order, df, pivot, side_cols, uncorrected,
              element_divisors, k, group_mni, transect_mni, error>>
season_vars == <<season_df, field_seasons, i, results, skipped, comparison_df>>
vars == <<call, pc, mni_vars, season_vars>>

MniIdle ==
    /\ df = input /\ pivot = EmptyFrame /\ side_cols = {} /\ uncorrected = EmptyFrame
    /\ element_divisors = <<>> /\ k = 1
    /\ group_mni = EmptyFrame /\ transect_mni = EmptyFrame /\ error = NoError

SeasonIdle ==
    /\ field_seasons = <<>> /\ i = 1 /\ results = <<>> /\ skipped = <<>>
    /\ comparison_df = <<>>

InitMni ==
    /\ call = "mni" /\ pc = "start"
    /\ hash_order \in list_orders
    /\ \/ input \in TaxonInputs /\ divisor_file \in {File(<<>>), MissingFile}
       \/ input \in CountInputs /\ divisor_file = StandardFile
       \/ input \in DivisorInputs /\ divisor_file \in DivisorFiles
       \/ input \in RawInputs /\ divisor_file = StandardFile
    /\ MniIdle
    /\ season_df = <<>> /\ SeasonIdle

InitSeason ==
    /\ call = "season" /\ pc = "start"
    /\ season_df \in SeasonInputs
    /\ SeasonIdle
    /\ input = EmptyFrame /\ divisor_file = MissingFile
    /\ hash_order = <<"element", "count">>
    /\ MniIdle

Init == InitMni \/ InitSeason

\* ------------------------------------------------- calculate_mni's actions

Raise(e) ==
    /\ pc' = "raised"
    /\ error' = e

\* Lines 65-69: the TransectUID check, the copy and the numeric coercion.
CheckTransectUID ==
    /\ call = "mni" /\ pc = "start"
    /\ IF entry_missing(df) # {}
       THEN Raise(MissingColumns(entry_missing(df), "")) /\ UNCHANGED df
       ELSE /\ df' = coerce_transect(df)
            /\ pc' = "taxon"
            /\ UNCHANGED error
    /\ UNCHANGED <<call, input, divisor_file, hash_order, pivot, side_cols,
                   uncorrected, element_divisors, k, group_mni, transect_mni,
                   season_vars>>

\* Lines 73-87: the taxon label reconstruction.
ReconstructTaxon ==
    /\ call = "mni" /\ pc = "taxon"
    /\ IF ~needs_taxon(df)
       THEN pc' = "shape" /\ UNCHANGED <<df, error>>
       ELSE IF alt_cols(df) # <<>>
       THEN /\ df' = reconstruct_taxon(df)
            /\ pc' = "shape"
            /\ UNCHANGED error
       ELSE Raise(MissingColumns({TaxonLabel}, NoAlternative)) /\ UNCHANGED df
    /\ UNCHANGED <<call, input, divisor_file, hash_order, pivot, side_cols,
                   uncorrected, element_divisors, k, group_mni, transect_mni,
                   season_vars>>

\* Lines 89-111: the raw branch.
PivotRaw ==
    /\ call = "mni" /\ pc = "shape"
    /\ Side \in df.columns
    /\ IF (required \cup {Side}) \ df.columns # {}
       THEN Raise(MissingColumns((required \cup {Side}) \ df.columns, ""))
            /\ UNCHANGED <<df, pivot>>
       ELSE /\ df' = dropna(df, raw_dropna_subset)
            /\ pivot' = pivot_table(df')
            /\ pc' = "element"
            /\ UNCHANGED error
    /\ UNCHANGED <<call, input, divisor_file, hash_order, side_cols, uncorrected,
                   element_divisors, k, group_mni, transect_mni, season_vars>>

\* Lines 112-118: the pivoted branch.  The second coercion of TransectUID
\* acts on a column that is Int64 already and leaves it as it is.
AcceptPivoted ==
    /\ call = "mni" /\ pc = "shape"
    /\ Side \notin df.columns
    /\ IF required \ df.columns # {}
       THEN Raise(MissingColumns(required \ df.columns, "")) /\ UNCHANGED pivot
       ELSE /\ pivot' = dropna(df, required)
            /\ pc' = "element"
            /\ UNCHANGED error
    /\ UNCHANGED <<call, input, divisor_file, hash_order, df, side_cols, uncorrected,
                   element_divisors, k, group_mni, transect_mni, season_vars>>

\* Lines 120-139: the element names, side_cols and the test "if side_cols".
NormaliseElement ==
    /\ call = "mni" /\ pc = "element"
    /\ pivot' = normalise_element(pivot)
    /\ side_cols' = side_columns(pivot')
    /\ uncorrected' = pivot'
    /\ pc' = IF side_cols' # {} THEN "mask" ELSE "element_mni"
    /\ UNCHANGED <<call, input, divisor_file, hash_order, df, element_divisors, k,
                   group_mni, transect_mni, error, season_vars>>

\* Lines 141-142.
MaskNonidentifiable ==
    /\ call = "mni" /\ pc = "mask"
    /\ pivot' = mask_nonidentifiable(pivot, side_cols)
    /\ pc' = "load"
    /\ UNCHANGED <<call, input, divisor_file, hash_order, df, side_cols, uncorrected,
                   element_divisors, k, group_mni, transect_mni, error, season_vars>>

\* Line 145 and _load_element_divisors.
LoadDivisors ==
    /\ call = "mni" /\ pc = "load"
    /\ LET loaded == load_element_divisors(divisor_file, hash_order)
       IN IF loaded.error # NoError
          THEN Raise(loaded.error) /\ UNCHANGED <<element_divisors, k>>
          ELSE /\ element_divisors' = loaded.tuples
               /\ k' = 1
               /\ pc' = IF loaded.tuples = <<>> THEN "element_mni" ELSE "divide"
               /\ UNCHANGED error
    /\ UNCHANGED <<call, input, divisor_file, hash_order, df, pivot, side_cols,
                   uncorrected, group_mni, transect_mni, season_vars>>

\* Lines 146-154: one pass of the loop over the divisor table.
ApplyDivisor ==
    /\ call = "mni" /\ pc = "divide"
    /\ pivot' = apply_divisor(pivot, side_cols, element_divisors[k])
    /\ k' = k + 1
    /\ pc' = IF k' > Len(element_divisors) THEN "element_mni" ELSE "divide"
    /\ UNCHANGED <<call, input, divisor_file, hash_order, df, side_cols, uncorrected,
                   element_divisors, group_mni, transect_mni, error, season_vars>>

\* Line 156.
ElementMni ==
    /\ call = "mni" /\ pc = "element_mni"
    /\ pivot' = with_element_mni(pivot, side_cols)
    /\ pc' = "group"
    /\ UNCHANGED <<call, input, divisor_file, hash_order, df, side_cols, uncorrected,
                   element_divisors, k, group_mni, transect_mni, error, season_vars>>

\* Lines 158-164.
GroupMni ==
    /\ call = "mni" /\ pc = "group"
    /\ group_mni' = group_max(pivot)
    /\ pc' = "transect"
    /\ UNCHANGED <<call, input, divisor_file, hash_order, df, pivot, side_cols,
                   uncorrected, element_divisors, k, transect_mni, error, season_vars>>

\* Lines 166-174; the last coercion leaves the Int64 column as it is.
TransectMni ==
    /\ call = "mni" /\ pc = "transect"
    /\ transect_mni' = transect_sum(group_mni)
    /\ pc' = "done"
    /\ UNCHANGED <<call, input, divisor_file, hash_order, df, pivot, side_cols,
                   uncorrected, element_divisors, k, group_mni, error, season_vars>>

\* ------------------------------------ compare_consecutive_seasons' actions

\* df[df[season_col] == season][value_col].dropna()
season_group(table, season) ==
    LET rows == SelectSeq(table, LAMBDA r: r.Year = Val(season) /\ ~isna(r.Value))
    IN [j \in 1..Len(rows) |-> rows[j].Value[1]]

RECURSIVE seq_sum(_)
seq_sum(s) == IF s = <<>> THEN 0 ELSE Head(s) + seq_sum(Tail(s))

\* Series.mean(), as the fraction <<sum, count>>.
mean(s) == <<seq_sum(s), Len(s)>>

\* The test with "or" in place of "and".
either_present(group_a, group_b) == Len(group_a) > 0 \/ Len(group_b) > 0

\* The test of line 67.
both_present(group_a, group_b) == Len(group_a) > 0 /\ Len(group_b) > 0

\* Lines 57-58.
SortSeasons ==
    /\ call = "season" /\ pc = "start"
    /\ field_seasons' = sorted({season_df[j].Year[1] :
                                   j \in {n \in 1..Len(season_df) : ~isna(season_df[n].Year)}})
    /\ results' = <<>>
    /\ i' = 1
    /\ pc' = "loop"
    /\ UNCHANGED <<call, mni_vars, season_df, skipped, comparison_df>>

\* Lines 60-83: one pass of the loop; i is Python's i, field_seasons is
\* indexed from 1 here.  The t statistic and the p-value of scipy's ttest_ind
\* are floating-point results that the model leaves out of the record.
CompareSeasons ==
    /\ call = "season" /\ pc = "loop"
    /\ i < Len(field_seasons)
    /\ LET season_a == field_seasons[i]
           season_b == field_seasons[i + 1]
           group_a == season_group(season_df, season_a)
           group_b == season_group(season_df, season_b)
       IN IF both_present(group_a, group_b)
          THEN /\ results' = Append(results,
                                [season_a |-> season_a, season_b |-> season_b,
                                 mean_a |-> mean(group_a), mean_b |-> mean(group_b)])
               /\ UNCHANGED skipped
          ELSE /\ skipped' = Append(skipped, <<season_a, season_b>>)
               /\ UNCHANGED results
    /\ i' = i + 1
    /\ UNCHANGED <<call, pc, mni_vars, season_df, field_seasons, comparison_df>>

\* Lines 85-100: one output row per entry of results, in order.
ReturnComparison ==
    /\ call = "season" /\ pc = "loop"
    /\ i >= Len(field_seasons)
    /\ comparison_df' = [j \in 1..Len(results) |->
                            [FieldSeasonA |-> results[j].season_a,
                             FieldSeasonB |-> results[j].season_b,
                             MeanA |-> results[j].mean_a,
                             MeanB |-> results[j].mean_b]]
    /\ pc' = "done"
    /\ UNCHANGED <<call, mni_vars, season_df, field_seasons, i, results, skipped>>

\* ----------------------------------------------------------- specification

Next ==
    \/ CheckTransectUID
    \/ ReconstructTaxon
    \/ PivotRaw
    \/ AcceptPivoted
    \/ NormaliseElement
    \/ MaskNonidentifiable
    \/ LoadDivisors
    \/ ApplyDivisor
    \/ ElementMni
    \/ GroupMni
    \/ TransectMni
    \/ SortSeasons
    \/ CompareSeasons
    \/ ReturnComparison

Spec == Init /\ [][Next]_vars

\* -------------------------------------------------------------- properties

\* The cell of input row j in column c, NA when the table has no such column.
orig(j, c) == IF c \in input.columns THEN input.rows[j][c] ELSE NA

RECURSIVE set_sum(_, _)
\* The sum of f[x] over the x of S.
set_sum(S, f) ==
    IF S = {} THEN 0
    ELSE LET x == CHOOSE y \in S : TRUE IN f[x] + set_sum(S \ {x}, f)

\* The side counts of pivot row j, once corrected.
counts_of(j) == {pivot.rows[j][c] : c \in side_cols}
\* The pivot rows of a transect, and of one of its (taxon, age, sex) groups.
rows_of_transect(t) == {j \in 1..Len(pivot.rows) : pivot.rows[j][TransectUID] = Val(t)}
group_of(j) == Project(pivot.rows[j], group_keys)
groups_of_transect(t) == {group_of(j) : j \in rows_of_transect(t)}
group_maximum(g) ==
    Max({Max(counts_of(j)) : j \in {n \in 1..Len(pivot.rows) : group_of(n) = g}})

\* C1: the MNI returned for a transect is the sum, over the transect's distinct
\* (taxon, age, sex) groups, of the largest element_mni in the group, where a
\* row's element_mni is the largest of its corrected side counts; the table
\* has one row for each transect of the pivoted table and no other.
C1_MniIsSumOfGroupMaxima ==
    (call = "mni" /\ pc = "done" /\ side_cols # {}) =>
        /\ {r[TransectUID] : r \in Range(transect_mni.rows)}
               = {r[TransectUID] : r \in Range(pivot.rows)}
        /\ Len(transect_mni.rows)
               = Cardinality({r[TransectUID] : r \in Range(pivot.rows)})
        /\ \A r \in Range(transect_mni.rows) :
               r.MNI = set_sum(groups_of_transect(r[TransectUID][1]),
                               [g \in groups_of_transect(r[TransectUID][1]) |->
                                   group_maximum(g)])

\* A transect with two groups, one holding elements of element_mni 3 and 5,
\* the other of maximum 2: MNI 7.
C1_Witness ==
    /\ call = "mni" /\ pc = "done"
    /\ \E a, b, c \in 1..Len(pivot.rows) :
          /\ group_of(a) = group_of(b) /\ group_of(c) # group_of(a)
          /\ pivot.rows[c][TransectUID] = pivot.rows[a][TransectUID]
          /\ pivot.rows[a][ElementMniCol] = Val(3)
          /\ pivot.rows[b][ElementMniCol] = Val(5)
          /\ pivot.rows[c][ElementMniCol] = Val(2)
          /\ Cardinality(rows_of_transect(pivot.rows[a][TransectUID][1])) = 3
          /\ \E r \in Range(transect_mni.rows) :
                r[TransectUID] = pivot.rows[a][TransectUID] /\ r.MNI = 7

\* C5: without a TransectUID column the call raises "Missing columns" naming
\* TransectUID alone, whatever else is missing, and nothing has been read or
\* transformed when it does.
C5_TransectUIDCheckedFirst ==
    (call = "mni" /\ TransectUID \notin input.columns /\ pc # "start") =>
        /\ pc = "raised"
        /\ error = MissingColumns({TransectUID}, "")
        /\ df = input /\ pivot = EmptyFrame /\ element_divisors = <<>>
        /\ transect_mni = EmptyFrame

\* TransectUID, Taxon Label, Pre: Age and the alternates all missing, and no
\* spreadsheet to read.
C5_Witness ==
    /\ call = "mni" /\ pc = "raised"
    /\ input.columns \cap {TransectUID, TaxonLabel, PreAge, PostTaxonGuess, PreTaxon} = {}
    /\ ~divisor_file.exists

first_non_null(a, b, c) == IF ~isna(a) THEN a ELSE IF ~isna(b) THEN b ELSE c

\* C9: after the reconstruction each row's Taxon Label is the first non-null
\* of (its original Taxon Label, Post: Taxon Guess?, Pre: Taxon), NA when all
\* three are; a label that was there is kept, and Pre: Taxon fills a row only
\* when the label and Post: Taxon Guess? are both missing.
C9_TaxonLabelIsFirstNonNull ==
    (call = "mni" /\ pc = "shape") =>
        /\ Len(df.rows) = Len(input.rows)
        /\ \A j \in 1..Len(df.rows) :
              /\ df.rows[j][TaxonLabel] =
                    first_non_null(orig(j, TaxonLabel), orig(j, PostTaxonGuess),
                                   orig(j, PreTaxon))
              /\ ~isna(orig(j, TaxonLabel))
                    => df.rows[j][TaxonLabel] = orig(j, TaxonLabel)
              /\ (~isna(orig(j, PreTaxon)) /\ df.rows[j][TaxonLabel] = orig(j, PreTaxon))
                    => (isna(orig(j, TaxonLabel)) /\ isna(orig(j, PostTaxonGuess)))

\* The reconstruction has run on a row with no label and both alternates, and
\* on a row with no label and Pre: Taxon alone.
C9_Witness ==
    /\ call = "mni" /\ pc = "shape"
    /\ \E j, n \in 1..Len(input.rows) :
          /\ isna(orig(j, TaxonLabel))
          /\ ~isna(orig(j, PostTaxonGuess)) /\ ~isna(orig(j, PreTaxon))
          /\ df.rows[j][TaxonLabel] = orig(j, PostTaxonGuess)
          /\ isna(orig(n, TaxonLabel)) /\ isna(orig(n, PostTaxonGuess))
          /\ PostTaxonGuess \in input.columns
          /\ df.rows[n][TaxonLabel] = Val("rhino")

\* The seasons of the table, and whether a season has a value.
seasons == {season_df[j].Year[1] : j \in {n \in 1..Len(season_df) : ~isna(season_df[n].Year)}}
has_values(s) == \E j \in 1..Len(season_df) :
                    season_df[j].Year = Val(s) /\ ~isna(season_df[j].Value)
adjacent(a, b) == a < b /\ ~\E c \in seasons : a < c /\ c < b
compared == {<<comparison_df[j].FieldSeasonA, comparison_df[j].FieldSeasonB>> :
                j \in 1..Len(comparison_df)}

\* C10: the output has exactly one row for each adjacent pair of the sorted
\* distinct seasons in which both seasons have a value, in ascending order,
\* and none for any other pair: a season without values removes both pairs
\* that touch it and its neighbours are not compared with each other.
C10_AdjacentPairsWithValues ==
    (call = "season" /\ pc = "done") =>
        /\ compared = {<<a, b>> \in seasons \X seasons :
                          adjacent(a, b) /\ has_values(a) /\ has_values(b)}
        /\ \A j \in 1..Len(comparison_df) - 1 :
              comparison_df[j].FieldSeasonA < comparison_df[j + 1].FieldSeasonA
        /\ \A e \in seasons :
              ~has_values(e) =>
                  /\ \A p \in compared : p[1] # e /\ p[2] # e /\ ~(p[1] < e /\ e < p[2])
                  /\ \A a \in seasons :
                        /\ adjacent(a, e) => <<a, e>> \in Range(skipped)
                        /\ adjacent(e, a) => <<e, a>> \in Range(skipped)

\* Seasons 2019, 2020, 2021 with values in 2019 and 2021 only: no row.
C10_Witness ==
    /\ call = "season" /\ pc = "done"
    /\ seasons = {2019, 2020, 2021}
    /\ has_values(2019) /\ ~has_values(2020) /\ has_values(2021)
    /\ comparison_df = <<>>
    /\ skipped = << <<2019, 2020>>, <<2020, 2021>> >>

\* C3: a Taxon Label column that holds nulls, with neither alternate column
\* in the table, does not make the call fail for the taxon label.
C3_NullTaxonLabelAccepted ==
    (/\ call = "mni"
     /\ required \subseteq input.columns
     /\ input.columns \cap {PostTaxonGuess, PreTaxon} = {}
     /\ \E j \in 1..Len(input.rows) : isna(input.rows[j][TaxonLabel]))
        => ~(pc = "raised" /\ TaxonLabel \in error.columns)

\* C4: an input row without an element name (null or blank) whose transect
\* id, taxon label, age and sex are present is kept, in either shape: the
\* pivoted table has it under "teeth" and its transect is in the result.
C4_MissingElementCountedAsTeeth ==
    (call = "mni" /\ pc = "done" /\ required \subseteq input.columns) =>
        \A j \in 1..Len(input.rows) :
            LET r == input.rows[j]
            IN (/\ isna(r[Element]) \/ is_blank(r[Element][1])
                /\ ~isna(to_numeric(r[TransectUID]))
                /\ ~isna(r[TaxonLabel]) /\ ~isna(r[PreAge]) /\ ~isna(r[PreSex])
                /\ Side \in input.columns => ~isna(r[Side]))
               => /\ \E q \in Range(pivot.rows) :
                        /\ q[Element] = Val("teeth")
                        /\ q[TransectUID] = to_numeric(r[TransectUID])
                        /\ q[TaxonLabel] = r[TaxonLabel]
                  /\ \E t \in Range(transect_mni.rows) :
                        t[TransectUID] = to_numeric(r[TransectUID])

\* C6: a pivoted row named "bone nonidentifiable" (in any case) has
\* element_mni 1 once the counts are corrected, whatever its counts were and
\* whatever the divisor table holds.
C6_NonidentifiableIsOne ==
    (call = "mni" /\ pc \in {"group", "transect", "done"} /\ side_cols # {}) =>
        \A r \in Range(pivot.rows) :
            element_is(r, "bone nonidentifiable") => r[ElementMniCol] = Val(1)

\* The spreadsheet's rows that name the element of pivot row j, and the
\* divisor of a row of the spreadsheet.
matching(j) ==
    {n \in 1..Len(divisor_file.rows) :
        element_is(pivot.rows[j],
                   str_lower(str_strip(divisor_file.rows[n][" Element"].text)))}
table_divisor(n) == divisor_file.rows[n]["Count"].num
positive(d) == ~isna(d) /\ d[1] > 0
divided(count, d) == ceil_div(count * d[2], d[1])

\* C7: when the loop over the divisor table is over, a side count c of a row
\* is ceil(c / d) if the table has an entry for the row's element with a
\* positive numeric divisor d, and is c if it has no entry for it or entries
\* whose divisor is zero, negative or not a number.
C7_DivisorCorrection ==
    (call = "mni" /\ pc = "element_mni" /\ side_cols # {}) =>
        \A j \in 1..Len(pivot.rows) :
            ~element_is(pivot.rows[j], "bone nonidentifiable") =>
                /\ (\A n \in matching(j) : ~positive(table_divisor(n))) =>
                      \A c \in side_cols : pivot.rows[j][c] = uncorrected.rows[j][c]
                /\ \A n \in matching(j) :
                      (matching(j) = {n} /\ positive(table_divisor(n))) =>
                          \A c \in side_cols :
                              pivot.rows[j][c] =
                                  divided(uncorrected.rows[j][c], table_divisor(n))

\* C8: when the table names an element several times, with positive
\* divisors, the corrected count is ceil(c / d) for the last of them alone.
C8_LastEntryWins ==
    (call = "mni" /\ pc = "element_mni" /\ side_cols # {}) =>
        \A j \in 1..Len(pivot.rows) :
            (/\ ~element_is(pivot.rows[j], "bone nonidentifiable")
             /\ Cardinality(matching(j)) >= 2
             /\ \A n \in matching(j) : positive(table_divisor(n)))
                => \A c \in side_cols :
                       pivot.rows[j][c] =
                           divided(uncorrected.rows[j][c],
                                   table_divisor(Max(matching(j))))

\* The pre-pivoted table equivalent to a raw one: no Side column, one row for
\* each five-key combination of the raw rows that have a side, one count
\* column for each side value seen, holding the number of raw rows of that
\* combination and side.
pre_pivoted(frame) ==
    LET sided == dropna(frame, {Side}).rows
        keys == distinct([j \in 1..Len(sided) |-> Project(sided[j], required)])
        sides == {sided[j][Side][1] : j \in 1..Len(sided)}
    IN Frame(required \cup sides,
             [n \in 1..Len(keys) |->
                 [c \in required \cup sides |->
                     IF c \in required THEN keys[n][c]
                     ELSE Cardinality({j \in 1..Len(sided) :
                              /\ Project(sided[j], required) = keys[n]
                              /\ sided[j][Side][1] = c})]])

\* C2: what calculate_mni returns for a raw table it accepts is what it
\* returns for the equivalent pre-pivoted table.
C2_ShapeInvariance ==
    (call = "mni" /\ pc = "done" /\ input.columns = required \cup {Side}) =>
        calculate_mni(pre_pivoted(input), divisor_file, hash_order)
            = Returned(transect_mni)

====
